---- MODULE Spec2Model ----
(***************************************************************************)
(* Mutation-context protocol of the persistent structures                  *)
(* (packages/system/src/Persistent, "Forked and ported from                *)
(* @frptools/structural").                                                 *)
(*                                                                         *)
(* The JavaScript heap is modelled by three growing sequences:             *)
(*   token : the one-element arrays [boolean] (index = identity of cell)   *)
(*   mctx  : the MutationContext instances (index = identity of object)    *)
(*   vals  : the Persistent objects (index = identity of object)           *)
(*   nodes : the RedBlackTree Node instances (index = identity of object)  *)
(* and tree is the one RedBlackTree instance.                              *)
(* Reference equality of the source (===) is equality of indices.          *)
(***************************************************************************)
EXTENDS Integers, Sequences, FiniteSets

VARIABLES token, mctx, vals, tree, nodes, pre, last, opens, cap

vars == <<token, mctx, vals, tree, nodes, pre, last, opens, cap>>

(* ---------------------------- bounds ----------------------------------- *)
(* Spec, SpecTrip, SpecUpdate: the batch operations, on a heap of at most  *)
MaxTokens == 3
MaxContexts == 4
MaxValues == 4
(* SpecAll: every operation of the module, on a heap of at most            *)
AllTokens == 3
AllContexts == 3
AllValues == 3
(* nesting depth of begin on one owner                                     *)
MaxScope == 2
(* SpecTree: nodes made by makeNode                                        *)
MaxNodes == 2

(* what a content field may hold *)
Contents == {0, 1}

(* absent child slot / absent argument *)
NoRef == 0

(* ------------------------- the heap as a value ------------------------- *)
Heap == [token |-> token, mctx |-> mctx, vals |-> vals, tree |-> tree, nodes |-> nodes]

Tokens(h) == 1..Len(h.token)
Contexts(h) == 1..Len(h.mctx)
Values(h) == 1..Len(h.vals)
Nodes(h) == 1..Len(h.nodes)

(* export const Frozen = Object.freeze(new MutationContext([false], -1)):  *)
(* the first context allocated, holding the first token cell.              *)
Frozen == 1

MutationContext(tk, scope) == [token |-> tk, scope |-> scope]

(* readonly [mctxSym] *)
getMutationContext(h, v) == h.vals[v].mctx

isMutableContext(h, c) == h.token[h.mctx[c].token]

isImmutableContext(h, c) == ~isMutableContext(h, c)

isPrimaryContext(h, c) == h.mctx[c].scope >= 0

isSubordinateContext(h, c) == h.mctx[c].scope = -1

(* isRelatedContext that compares what the cells hold, not the cells *)
isRelatedContext_byValue(h, a, b) == h.token[h.mctx[a].token] = h.token[h.mctx[b].token]

isRelatedContext(h, a, b) == h.mctx[a].token = h.mctx[b].token

isMutable(h, v) == isMutableContext(h, getMutationContext(h, v))

isImmutable(h, v) == ~isMutable(h, v)

tokenOf(h, v) == h.mctx[getMutationContext(h, v)].token

areContextsRelated(h, a, b) == tokenOf(h, a) = tokenOf(h, b)

hasRelatedContext(h, c, v) == h.mctx[c].token = tokenOf(h, v)

(* Every operation below returns the heap after it, its result and the     *)
(* error it threw ("none" when it returned normally).                      *)
Ret(h, r) == [h |-> h, ret |-> r, err |-> "none"]

(* Errors/index.ts: throwError = (s) => { throw new Error(s) }; nothing    *)
(* was written before the throw, so the heap is the one passed in.         *)
throwError(h, e) == [h |-> h, ret |-> NoRef, err |-> e]

throwInvalidOperation(h) == throwError(h, "InvalidOperation")

throwArgumentError(h) == throwError(h, "ArgumentError")

(* mutable that opens the new context on the cell allocated last *)
mutable_sharedToken(h) ==
  Ret([h EXCEPT !.mctx = Append(@, MutationContext(Len(h.token), 0))],
      Len(h.mctx) + 1)

(* new MutationContext([true], 0): a fresh cell and a fresh context *)
mutable(h) ==
  Ret([h EXCEPT !.token = Append(@, TRUE),
                !.mctx = Append(@, MutationContext(Len(h.token) + 1, 0))],
      Len(h.mctx) + 1)

(* immutable that allocates a frozen context per call *)
immutable_fresh(h) ==
  Ret([h EXCEPT !.token = Append(@, FALSE),
                !.mctx = Append(@, MutationContext(Len(h.token) + 1, -1))],
      Len(h.mctx) + 1)

immutable(h) == Ret(h, Frozen)

(* asSubordinateContext that allocates whatever the role of its input *)
asSubordinateContext_alwaysNew(h, c) ==
  Ret([h EXCEPT !.mctx = Append(@, MutationContext(h.mctx[c].token, -1))],
      Len(h.mctx) + 1)

(* asSubordinateContext that allocates an owner of the same cell *)
asSubordinateContext_sameRole(h, c) ==
  IF h.mctx[c].scope >= 0
    THEN Ret([h EXCEPT !.mctx = Append(@, MutationContext(h.mctx[c].token, 0))],
             Len(h.mctx) + 1)
    ELSE Ret(h, c)

asSubordinateContext(h, c) ==
  IF h.mctx[c].scope >= 0
    THEN Ret([h EXCEPT !.mctx = Append(@, MutationContext(h.mctx[c].token, -1))],
             Len(h.mctx) + 1)
    ELSE Ret(h, c)

getSubordinateContext(h, v) == asSubordinateContext(h, getMutationContext(h, v))

(* PreferredContext = MutationContext | Persistent | boolean, or undefined *)
(* as [k |-> "undef" | "true" | "false" | "ctx" | "val", x |-> index].     *)
Pref(k, x) == [k |-> k, x |-> x]

PreferredContext(h) ==
  {Pref("undef", NoRef), Pref("true", NoRef), Pref("false", NoRef)}
    \cup {Pref("ctx", c) : c \in Contexts(h)}
    \cup {Pref("val", v) : v \in Values(h)}

(* selectContext that hands back the context it was given, frozen or not *)
selectContext_keepFrozen(h, pctx) ==
  IF pctx.k = "undef" THEN Ret(h, Frozen)
  ELSE IF pctx.k = "true" THEN mutable(h)
  ELSE IF pctx.k = "false" THEN Ret(h, Frozen)
  ELSE IF pctx.k = "ctx" THEN Ret(h, pctx.x)
  ELSE getSubordinateContext(h, pctx.x)

selectContext(h, pctx) ==
  IF pctx.k = "undef" THEN Ret(h, Frozen)
  ELSE IF pctx.k = "true" THEN mutable(h)
  ELSE IF pctx.k = "false" THEN Ret(h, Frozen)
  ELSE IF pctx.k = "ctx"
    THEN (IF isMutableContext(h, pctx.x) THEN Ret(h, pctx.x) ELSE Ret(h, Frozen))
  ELSE getSubordinateContext(h, pctx.x)

(* value[cloneSym](mctx): a shallow copy carrying mctx; the child slot     *)
(* keeps referring to the same child object.                               *)
cloneSym(h, v, c) ==
  Ret([h EXCEPT !.vals = Append(@, [h.vals[v] EXCEPT !.mctx = c])],
      Len(h.vals) + 1)

clone(h, v, pctx) ==
  LET s == selectContext(h, pctx) IN cloneSym(s.h, v, s.ret)

close(h, c) == [h EXCEPT !.token[h.mctx[c].token] = FALSE]

incScope(h, c) == [h EXCEPT !.mctx[c].scope = @ + 1]

decScope(h, c) == [h EXCEPT !.mctx[c].scope = @ - 1]

(* commitContext that does not look at the role of the context *)
commitContext_anyRole(h, c) == close(h, c)

(* commitContext that ends one level of nesting, as commit does *)
commitContext_outermostOnly(h, c) ==
  IF isPrimaryContext(h, c)
    THEN (IF h.mctx[c].scope = 0 THEN close(h, c) ELSE decScope(h, c))
    ELSE h

commitContext(h, c) == IF isPrimaryContext(h, c) THEN close(h, c) ELSE h

(* begin that clones an immutable value without asking for a mutable context *)
begin_cloneAsIs(h, v) ==
  LET mc == getMutationContext(h, v) IN
    IF isMutableContext(h, mc)
      THEN (IF isSubordinateContext(h, mc) THEN Ret(h, v)
                                           ELSE Ret(incScope(h, mc), v))
      ELSE clone(h, v, Pref("undef", NoRef))

(* begin that clones whether or not the value is already mutable *)
begin_alwaysClone(h, v) ==
  LET m == mutable(h) IN clone(m.h, v, Pref("ctx", m.ret))

(* begin that re-activates the token of an immutable value in place *)
begin_reopen(h, v) ==
  LET mc == getMutationContext(h, v) IN
    IF isMutableContext(h, mc)
      THEN (IF isSubordinateContext(h, mc) THEN Ret(h, v)
                                           ELSE Ret(incScope(h, mc), v))
      ELSE Ret([h EXCEPT !.token[h.mctx[mc].token] = TRUE], v)

begin(h, v) ==
  LET mc == getMutationContext(h, v) IN
    IF isMutableContext(h, mc)
      THEN (IF isSubordinateContext(h, mc) THEN Ret(h, v)
                                           ELSE Ret(incScope(h, mc), v))
      ELSE LET m == mutable(h) IN clone(m.h, v, Pref("ctx", m.ret))

(* commit that only ever decrements the scope *)
commit_keepsOpen(h, v) ==
  LET mc == getMutationContext(h, v) IN
    IF isPrimaryContext(h, mc) THEN Ret(decScope(h, mc), v) ELSE Ret(h, v)

(* commit that freezes the batch at any nesting depth *)
commit_closeAlways(h, v) ==
  LET mc == getMutationContext(h, v) IN
    IF isPrimaryContext(h, mc) THEN Ret(close(h, mc), v) ELSE Ret(h, v)

(* commit that does not look at the role of the context *)
commit_anyRole(h, v) ==
  LET mc == getMutationContext(h, v) IN
    IF h.mctx[mc].scope = 0 THEN Ret(close(h, mc), v) ELSE Ret(decScope(h, mc), v)

(* commit that decrements the scope also when it closes the batch *)
commit_decrementsToo(h, v) ==
  LET mc == getMutationContext(h, v) IN
    IF isPrimaryContext(h, mc)
      THEN (IF h.mctx[mc].scope = 0 THEN Ret(decScope(close(h, mc), mc), v)
                                    ELSE Ret(decScope(h, mc), v))
      ELSE Ret(h, v)

(* commit that hands the committed value over to the Frozen context *)
commit_toFrozen(h, v) ==
  LET mc == getMutationContext(h, v) IN
    IF isPrimaryContext(h, mc)
      THEN (IF h.mctx[mc].scope = 0
              THEN Ret([close(h, mc) EXCEPT !.vals[v].mctx = Frozen], v)
              ELSE Ret(decScope(h, mc), v))
      ELSE Ret(h, v)

commit(h, v) ==
  LET mc == getMutationContext(h, v) IN
    IF isPrimaryContext(h, mc)
      THEN (IF h.mctx[mc].scope = 0 THEN Ret(close(h, mc), v)
                                    ELSE Ret(decScope(h, mc), v))
      ELSE Ret(h, v)

(* context: Persistent | MutationContext, as Pref("val", _) or Pref("ctx", _) *)
contextOf(h, context) ==
  IF context.k = "ctx" THEN context.x ELSE getMutationContext(h, context.x)

(* modifyAsSubordinate that keeps any related child, owner included *)
modifyAsSubordinate_relatedOnly(h, context, value) ==
  LET mctxChild == getMutationContext(h, value)
      mctxParent == contextOf(h, context)
  IN IF isMutableContext(h, mctxParent)
       THEN (IF isRelatedContext(h, mctxChild, mctxParent)
               THEN Ret(h, value)
               ELSE LET s == asSubordinateContext(h, mctxParent)
                    IN clone(s.h, value, Pref("ctx", s.ret)))
       ELSE throwArgumentError(h)

modifyAsSubordinate(h, context, value) ==
  LET mctxChild == getMutationContext(h, value)
      mctxParent == contextOf(h, context)
  IN IF isMutableContext(h, mctxParent)
       THEN (IF isRelatedContext(h, mctxChild, mctxParent)
                  /\ isSubordinateContext(h, mctxChild)
               THEN Ret(h, value)
               ELSE LET s == asSubordinateContext(h, mctxParent)
                    IN clone(s.h, value, Pref("ctx", s.ret)))
       ELSE throwArgumentError(h)

(* modifyAsEqual that gives the clone a copy of the context of the owner *)
modifyAsEqual_copiesContext(h, context, value) ==
  LET mcChild == getMutationContext(h, value)
      mcParent == contextOf(h, context)
  IN IF isMutableContext(h, mcParent)
       THEN (IF isRelatedContext(h, mcChild, mcParent)
                  /\ (isSubordinateContext(h, mcParent) \/ isPrimaryContext(h, mcChild))
               THEN Ret(h, value)
               ELSE cloneSym([h EXCEPT !.mctx = Append(@, h.mctx[mcParent])],
                             value, Len(h.mctx) + 1))
       ELSE throwArgumentError(h)

(* modifyAsEqual that does not look at the mutability of the context *)
modifyAsEqual_unchecked(h, context, value) ==
  LET mcChild == getMutationContext(h, value)
      mcParent == contextOf(h, context)
  IN IF isRelatedContext(h, mcChild, mcParent)
          /\ (isSubordinateContext(h, mcParent) \/ isPrimaryContext(h, mcChild))
       THEN Ret(h, value)
       ELSE cloneSym(h, value, mcParent)

(* modifyAsEqual that forces the subordinate role, as modifyAsSubordinate *)
modifyAsEqual_subordinate(h, context, value) ==
  LET mcChild == getMutationContext(h, value)
      mcParent == contextOf(h, context)
  IN IF isMutableContext(h, mcParent)
       THEN (IF isRelatedContext(h, mcChild, mcParent)
                  /\ isSubordinateContext(h, mcChild)
               THEN Ret(h, value)
               ELSE LET s == asSubordinateContext(h, mcParent)
                    IN clone(s.h, value, Pref("ctx", s.ret)))
       ELSE throwArgumentError(h)

modifyAsEqual(h, context, value) ==
  LET mcChild == getMutationContext(h, value)
      mcParent == contextOf(h, context)
  IN IF isMutableContext(h, mcParent)
       THEN (IF isRelatedContext(h, mcChild, mcParent)
                  /\ (isSubordinateContext(h, mcParent) \/ isPrimaryContext(h, mcChild))
               THEN Ret(h, value)
               ELSE clone(h, value, Pref("ctx", mcParent)))
       ELSE throwArgumentError(h)

(* modifyProperty that hands back the child without cloning it *)
modifyProperty_inPlace(h, parent) ==
  IF isImmutable(h, parent) THEN throwInvalidOperation(h)
  ELSE Ret(h, h.vals[parent].child)

(* modifyProperty that does not look at the mutability of the parent *)
modifyProperty_unchecked(h, parent) ==
  LET child == h.vals[parent].child IN
    IF child = NoRef THEN throwInvalidOperation(h)
    ELSE IF isRelatedContext(h, getMutationContext(h, child), getMutationContext(h, parent))
      THEN Ret(h, child)
      ELSE LET c == clone(h, child, Pref("val", parent))
           IN Ret([c.h EXCEPT !.vals[parent].child = c.ret], c.ret)

(* modifyProperty that clones the child and leaves the slot as it was *)
modifyProperty_noWriteBack(h, parent) ==
  IF isImmutable(h, parent) THEN throwInvalidOperation(h)
  ELSE LET child == h.vals[parent].child IN
    IF isRelatedContext(h, getMutationContext(h, child), getMutationContext(h, parent))
      THEN Ret(h, child)
      ELSE clone(h, child, Pref("val", parent))

(* parent[name] with the one child slot of the modelled structure *)
modifyProperty(h, parent) ==
  IF isImmutable(h, parent) THEN throwInvalidOperation(h)
  ELSE LET child == h.vals[parent].child IN
    IF isRelatedContext(h, getMutationContext(h, child), getMutationContext(h, parent))
      THEN Ret(h, child)
      ELSE LET c == clone(h, child, Pref("val", parent))
           IN Ret([c.h EXCEPT !.vals[parent].child = c.ret], c.ret)

(* withMutability that returns the value as it is when given no preference *)
withMutability_undefAsIs(h, pctx, value) ==
  IF pctx.k = "undef" THEN Ret(h, value)
  ELSE IF pctx.k \in {"true", "false"}
    THEN (IF (pctx.k = "true") = isMutable(h, value) THEN Ret(h, value)
          ELSE IF pctx.k = "true"
            THEN LET m == mutable(h) IN cloneSym(m.h, value, m.ret)
            ELSE cloneSym(h, value, Frozen))
  ELSE IF pctx.k = "ctx"
    THEN (IF isRelatedContext(h, pctx.x, getMutationContext(h, value))
            THEN Ret(h, value)
            ELSE cloneSym(h, value, pctx.x))
  ELSE (IF areContextsRelated(h, pctx.x, value) THEN Ret(h, value)
        ELSE LET s == getSubordinateContext(h, pctx.x)
             IN cloneSym(s.h, value, s.ret))

withMutability(h, pctx, value) ==
  IF pctx.k = "undef" THEN cloneSym(h, value, Frozen)
  ELSE IF pctx.k \in {"true", "false"}
    THEN (IF (pctx.k = "true") = isMutable(h, value) THEN Ret(h, value)
          ELSE IF pctx.k = "true"
            THEN LET m == mutable(h) IN cloneSym(m.h, value, m.ret)
            ELSE cloneSym(h, value, Frozen))
  ELSE IF pctx.k = "ctx"
    THEN (IF isRelatedContext(h, pctx.x, getMutationContext(h, value))
            THEN Ret(h, value)
            ELSE cloneSym(h, value, pctx.x))
  ELSE (IF areContextsRelated(h, pctx.x, value) THEN Ret(h, value)
        ELSE LET s == getSubordinateContext(h, pctx.x)
             IN cloneSym(s.h, value, s.ret))

(* ensureContext that refuses a context that is not mutable *)
ensureContext_mutableOnly(h, c, value) ==
  IF isImmutableContext(h, c) THEN throwArgumentError(h)
  ELSE IF getMutationContext(h, value) = c THEN Ret(h, value) ELSE cloneSym(h, value, c)

(* ensureContext that is content with a related context *)
ensureContext_related(h, c, value) ==
  IF isRelatedContext(h, getMutationContext(h, value), c)
    THEN Ret(h, value) ELSE cloneSym(h, value, c)

ensureContext(h, c, value) ==
  IF getMutationContext(h, value) = c THEN Ret(h, value) ELSE cloneSym(h, value, c)

(* ------------------------ RedBlackTree/index.ts ------------------------ *)
(* class Node: left and right default to the node itself *)
Node(editable, key, value, red, count, left, right) ==
  [editable |-> editable, key |-> key, value |-> value, red |-> red,
   count |-> count, left |-> left, right |-> right]

(* export const None = new Node(true, undefined, undefined, false, 0): the *)
(* first node allocated                                                    *)
None == 1

RedBlackTree(editable, root, size) == [editable |-> editable, root |-> root, size |-> size]

(* make(o) = new RedBlackTree(false, o, None, 0) *)
make == RedBlackTree(FALSE, None, 0)

(* makeNode that does not take over the flag of the tree *)
makeNode_notEditable(h, red, key, value) ==
  Ret([h EXCEPT !.nodes = Append(@, Node(FALSE, key, value, red, 1, None, None))],
      Len(h.nodes) + 1)

makeNode(h, red, key, value) ==
  Ret([h EXCEPT !.nodes = Append(@, Node(h.tree.editable, key, value, red, 1, None, None))],
      Len(h.nodes) + 1)

(* a structural operation that checks the flag of the node before it       *)
(* assigns node.value, and refuses otherwise                               *)
setValue(h, n, x) ==
  IF h.nodes[n].editable THEN Ret([h EXCEPT !.nodes[n].value = x], n)
  ELSE throwInvalidOperation(h)

(* ------------------------------ state ---------------------------------- *)
(* pre   : the heap as it was before the last operation.                   *)
(* last  : the last operation: its name, its preference or context         *)
(*         argument (how, x), its value (for commitContext: context)       *)
(*         argument, its result and the error it threw.                    *)
(* opens : per primary context, begin calls (the creating one included)    *)
(*         minus commit calls on the values holding it; 0 once every begin *)
(*         has been matched or commitContext ended the batch; 0 for        *)
(*         subordinate contexts.                                           *)
(* cap   : the size of the heap the specification explores.                *)

Op(op, pctx, arg, r) ==
  [op |-> op, how |-> pctx.k, x |-> pctx.x, arg |-> arg, ret |-> r.ret, err |-> r.err]

NoPref == Pref("", NoRef)

Fits(h) ==
  /\ Len(h.token) <= cap.tokens
  /\ Len(h.mctx) <= cap.contexts
  /\ Len(h.vals) <= cap.values
  /\ Len(h.nodes) <= 1 + cap.nodes
  /\ \A c \in Contexts(h) : h.mctx[c].scope <= MaxScope

(* the contexts the step allocated join the count: a primary one has been  *)
(* opened once, by its creation                                            *)
Extend(o, h) ==
  [c \in Contexts(h) |->
     IF c <= Len(o) THEN o[c] ELSE IF h.mctx[c].scope >= 0 THEN 1 ELSE -1]

beginOpens(o, h, v) ==
  LET mc == getMutationContext(h, v) IN
    IF isMutable(h, v) /\ isPrimaryContext(h, mc) /\ o[mc] >= 1
      THEN [o EXCEPT ![mc] = @ + 1] ELSE o

commitOpens(o, h, v) ==
  LET mc == getMutationContext(h, v) IN
    IF isPrimaryContext(h, mc) /\ o[mc] >= 1 THEN [o EXCEPT ![mc] = @ - 1] ELSE o

(* one step: operation op took the heap to r.h and counted o *)
Step(op, pctx, arg, r, o) ==
  /\ Fits(r.h)
  /\ token' = r.h.token
  /\ mctx' = r.h.mctx
  /\ vals' = r.h.vals
  /\ tree' = r.h.tree
  /\ nodes' = r.h.nodes
  /\ pre' = Heap
  /\ last' = Op(op, pctx, arg, r)
  /\ opens' = Extend(o, r.h)
  /\ cap' = cap

(* two immutable values built with immutable(): a parent and its child;    *)
(* the sentinel None and a tree built by make                              *)
InitHeap ==
  [token |-> <<FALSE>>,
   mctx |-> <<MutationContext(1, -1)>>,
   vals |-> <<[mctx |-> Frozen, content |-> 0, child |-> 2],
              [mctx |-> Frozen, content |-> 0, child |-> NoRef]>>,
   tree |-> make,
   nodes |-> <<Node(TRUE, NoRef, NoRef, FALSE, 0, None, None)>>]

InitWith(k) ==
  /\ token = InitHeap.token
  /\ mctx = InitHeap.mctx
  /\ vals = InitHeap.vals
  /\ tree = InitHeap.tree
  /\ nodes = InitHeap.nodes
  /\ pre = InitHeap
  /\ last = Op("init", NoPref, NoRef, Ret(InitHeap, NoRef))
  /\ opens = <<-1>>
  /\ cap = k

Init ==
  InitWith([tokens |-> MaxTokens, contexts |-> MaxContexts, values |-> MaxValues,
            nodes |-> 0])

InitAll ==
  InitWith([tokens |-> AllTokens, contexts |-> AllContexts, values |-> AllValues,
            nodes |-> 0])

InitTree ==
  InitWith([tokens |-> AllTokens, contexts |-> AllContexts, values |-> AllValues,
            nodes |-> MaxNodes])

(* ------------------------------ actions -------------------------------- *)
Begin(v) == Step("begin", NoPref, v, begin(Heap, v), beginOpens(opens, Heap, v))

Commit(v) == Step("commit", NoPref, v, commit(Heap, v), commitOpens(opens, Heap, v))

CommitContext(c) ==
  Step("commitContext", NoPref, c, Ret(commitContext(Heap, c), NoRef),
       IF isPrimaryContext(Heap, c) THEN [opens EXCEPT ![c] = 0] ELSE opens)

Mutable == Step("mutable", NoPref, NoRef, mutable(Heap), opens)

Immutable == Step("immutable", NoPref, NoRef, immutable(Heap), opens)

SelectContext(pctx) == Step("selectContext", pctx, NoRef, selectContext(Heap, pctx), opens)

AsSubordinateContext(c) ==
  Step("asSubordinateContext", Pref("ctx", c), NoRef, asSubordinateContext(Heap, c), opens)

GetSubordinateContext(v) ==
  Step("getSubordinateContext", NoPref, v, getSubordinateContext(Heap, v), opens)

Clone(v, pctx) == Step("clone", pctx, v, clone(Heap, v, pctx), opens)

ModifyAsSubordinate(context, v) ==
  Step("modifyAsSubordinate", context, v, modifyAsSubordinate(Heap, context, v), opens)

ModifyAsEqual(context, v) ==
  Step("modifyAsEqual", context, v, modifyAsEqual(Heap, context, v), opens)

(* the slot is read only once the parent is known to be mutable *)
ModifyProperty(parent) ==
  /\ isImmutable(Heap, parent) \/ vals[parent].child # NoRef
  /\ Step("modifyProperty", NoPref, parent, modifyProperty(Heap, parent), opens)

WithMutability(pctx, v) ==
  Step("withMutability", pctx, v, withMutability(Heap, pctx, v), opens)

EnsureContext(c, v) ==
  Step("ensureContext", Pref("ctx", c), v, ensureContext(Heap, c, v), opens)

(* assignment to the public field editable of the tree *)
SetEditable(b) ==
  /\ tree.editable # b
  /\ Step("setEditable", NoPref, NoRef, Ret([Heap EXCEPT !.tree.editable = b], NoRef), opens)

MakeNode(red, key, value) ==
  Step("makeNode", NoPref, NoRef, makeNode(Heap, red, key, value), opens)

SetValue(n, x) ==
  /\ nodes[n].value # x
  /\ Step("setValue", NoPref, n, setValue(Heap, n, x), opens)

(* The operations whose result client code mutates in place: the value     *)
(* begin returned, or the child modifyProperty / modifyAsSubordinate       *)
(* returned.                                                                *)
Handing == {"begin", "modifyProperty", "modifyAsSubordinate"}

(* the object client code holds for writing: the one it was just handed *)
Handle ==
  IF last.op \in Handing /\ last.err = "none" THEN last.ret
  ELSE IF last.op = "write" THEN last.arg
  ELSE NoRef

(* client code assigning the content field of the object it was handed *)
Write(x) ==
  /\ Handle # NoRef
  /\ vals[Handle].content # x
  /\ Step("write", NoPref, Handle,
          Ret([Heap EXCEPT !.vals[Handle].content = x], NoRef), opens)

(* the mutate procedures handed to update: do nothing; assign the content  *)
(* field; call begin and never commit; call commit; a matched begin,       *)
(* assignment, commit                                                      *)
Mutate == {"skip", "write", "begin", "commit", "nested"}

mutate(h, m, v) ==
  IF m = "write" THEN [h EXCEPT !.vals[v].content = 1 - @]
  ELSE IF m = "begin" THEN begin(h, v).h
  ELSE IF m = "commit" THEN commit(h, v).h
  ELSE IF m = "nested"
    THEN LET b == begin(h, v)
         IN commit([b.h EXCEPT !.vals[b.ret].content = 1 - @], b.ret).h
  ELSE h

(* update that does not open a batch before it calls mutate *)
update_noBegin(h, m, value) == commit(mutate(h, m, value), value)

update(h, m, value) ==
  LET b == begin(h, value)
  IN commit(mutate(b.h, m, b.ret), b.ret)

updateOpens(o, h, m, value) ==
  LET b == begin(h, value)
      o1 == Extend(beginOpens(o, h, value), b.h)
      o2 == IF m = "begin" THEN beginOpens(o1, b.h, b.ret)
            ELSE IF m = "commit" THEN commitOpens(o1, b.h, b.ret)
            ELSE o1
  IN commitOpens(o2, mutate(b.h, m, b.ret), b.ret)

Update(m, v) ==
  Step("update", Pref(m, NoRef), v, update(Heap, m, v), updateOpens(opens, Heap, m, v))

(* the expression begin(commit(begin(v))) *)
roundTrip(h, v) ==
  LET b == begin(h, v)
      c == commit(b.h, b.ret)
  IN begin(c.h, c.ret)

roundTripOpens(o, h, v) ==
  LET b == begin(h, v)
      c == commit(b.h, b.ret)
      o1 == Extend(beginOpens(o, h, v), b.h)
  IN beginOpens(commitOpens(o1, b.h, b.ret), c.h, c.ret)

RoundTrip(v) ==
  Step("roundTrip", NoPref, v, roundTrip(Heap, v), roundTripOpens(opens, Heap, v))

(* the batch operations: begin, recruit children of a mutable owner, write *)
(* through what was handed back, commit                                    *)
Next ==
  \/ \E v \in Values(Heap) : Begin(v)
  \/ \E v \in Values(Heap) : Commit(v)
  \/ \E v \in Values(Heap), w \in Values(Heap) :
       isMutable(Heap, w) /\ ModifyAsSubordinate(Pref("val", w), v)
  \/ \E v \in Values(Heap) : ModifyProperty(v)
  \/ \E x \in Contents : Write(x)

Spec == Init /\ [][Next]_vars

(* begin(commit(begin(v))) among begin, commit and writes *)
NextTrip ==
  \/ \E v \in Values(Heap) : Begin(v)
  \/ \E v \in Values(Heap) : Commit(v)
  \/ \E x \in Contents : Write(x)
  \/ \E v \in Values(Heap) : RoundTrip(v)

SpecTrip == Init /\ [][NextTrip]_vars

(* update among begin and commit *)
NextUpdate ==
  \/ \E v \in Values(Heap) : Begin(v)
  \/ \E v \in Values(Heap) : Commit(v)
  \/ \E v \in Values(Heap), m \in Mutate : Update(m, v)

SpecUpdate == Init /\ [][NextUpdate]_vars

(* recruiting into a batch: modifyAsSubordinate and modifyAsEqual, given an *)
(* owner or a context, mutable or not, among begin and commit              *)
NextModify ==
  \/ \E v \in Values(Heap) : Begin(v)
  \/ \E v \in Values(Heap) : Commit(v)
  \/ \E v \in Values(Heap), x \in PreferredContext(Heap) :
       x.k \in {"ctx", "val"} /\ ModifyAsSubordinate(x, v)
  \/ \E v \in Values(Heap), x \in PreferredContext(Heap) :
       x.k \in {"ctx", "val"} /\ ModifyAsEqual(x, v)

SpecModify == Init /\ [][NextModify]_vars

(* nodes made for a tree while mutation contexts are opened and committed *)
NextTree ==
  \/ Mutable
  \/ \E c \in Contexts(Heap) : CommitContext(c)
  \/ \E b \in BOOLEAN : SetEditable(b)
  \/ \E red \in BOOLEAN, value \in Contents : MakeNode(red, Len(nodes), value)
  \/ \E n \in Nodes(Heap) \ {None}, x \in Contents : SetValue(n, x)

SpecTree == InitTree /\ [][NextTree]_vars

(* the operations on contexts (mutable, asSubordinateContext,              *)
(* commitContext) and the operations that give a value a context           *)
(* (ensureContext, withMutability), among begin and commit                 *)
NextContext ==
  \/ \E v \in Values(Heap) : Begin(v)
  \/ \E v \in Values(Heap) : Commit(v)
  \/ \E c \in Contexts(Heap) : CommitContext(c)
  \/ Mutable
  \/ \E c \in Contexts(Heap) : AsSubordinateContext(c)
  \/ \E v \in Values(Heap), c \in Contexts(Heap) : EnsureContext(c, v)
  \/ \E v \in Values(Heap), pctx \in PreferredContext(Heap) : WithMutability(pctx, v)

SpecContext == Init /\ [][NextContext]_vars

(* every operation of the module *)
NextAll ==
  \/ \E v \in Values(Heap) : Begin(v)
  \/ \E v \in Values(Heap) : Commit(v)
  \/ \E c \in Contexts(Heap) : CommitContext(c)
  \/ Mutable
  \/ Immutable
  \/ \E pctx \in PreferredContext(Heap) : SelectContext(pctx)
  \/ \E c \in Contexts(Heap) : AsSubordinateContext(c)
  \/ \E v \in Values(Heap) : GetSubordinateContext(v)
  \/ \E v \in Values(Heap), pctx \in PreferredContext(Heap) : Clone(v, pctx)
  \/ \E v \in Values(Heap), x \in PreferredContext(Heap) :
       x.k \in {"ctx", "val"} /\ ModifyAsSubordinate(x, v)
  \/ \E v \in Values(Heap), x \in PreferredContext(Heap) :
       x.k \in {"ctx", "val"} /\ ModifyAsEqual(x, v)
  \/ \E v \in Values(Heap) : ModifyProperty(v)
  \/ \E v \in Values(Heap), pctx \in PreferredContext(Heap) : WithMutability(pctx, v)
  \/ \E v \in Values(Heap), c \in Contexts(Heap) : EnsureContext(c, v)
  \/ \E v \in Values(Heap), m \in Mutate : Update(m, v)

SpecAll == InitAll /\ [][NextAll]_vars

(* ------------------------------ claims --------------------------------- *)
(* the context the value argument of the last operation held before it *)
ArgCtx == getMutationContext(pre, last.arg)

ArgToken == pre.mctx[ArgCtx].token

(* the values of heap h whose context shares token t *)
Batch(h, t) == {w \in Values(h) : tokenOf(h, w) = t}

(* C1: commit on a value whose context is primary with scope 0 flips the   *)
(* shared token to frozen; right after it every value whose context shares *)
(* that token is immutable, and commit wrote no context, no value and no   *)
(* other token.                                                            *)
C1_CommitFreezesBatch ==
  (last.op = "commit" /\ isPrimaryContext(pre, ArgCtx) /\ pre.mctx[ArgCtx].scope = 0)
    => /\ ~token[ArgToken]
       /\ \A w \in Batch(Heap, ArgToken) : isImmutable(Heap, w)
       /\ mctx = pre.mctx
       /\ vals = pre.vals
       /\ \A t \in Tokens(pre) \ {ArgToken} : token[t] = pre.token[t]

C1_Witness ==
  /\ last.op = "commit"
  /\ isPrimaryContext(pre, ArgCtx)
  /\ pre.mctx[ArgCtx].scope = 0
  /\ isMutable(pre, last.arg)
  /\ \E w \in Batch(pre, ArgToken) :
       /\ w # last.arg
       /\ isSubordinateContext(pre, getMutationContext(pre, w))
       /\ isMutable(pre, w)
       /\ isImmutable(Heap, w)

(* C2: when content is written only to the value begin returned or to the  *)
(* child modifyProperty / modifyAsSubordinate returned, no value that was  *)
(* immutable is ever changed: the two original values keep their context,  *)
(* content and child slot, and no step changes a field of a value that was *)
(* immutable before it.                                                    *)
C2_ImmutableUntouched ==
  /\ vals[1] = InitHeap.vals[1]
  /\ vals[2] = InitHeap.vals[2]
  /\ \A v \in Values(pre) : isImmutable(pre, v) => vals[v] = pre.vals[v]

C2_Witness ==
  /\ last.op = "commit"
  /\ isMutable(pre, last.arg)
  /\ isImmutable(Heap, last.arg)
  /\ vals[last.arg].content = 1
  /\ vals[last.arg].child \notin {NoRef, 2}
  /\ vals[vals[last.arg].child].content = 1
  /\ isImmutable(Heap, vals[last.arg].child)
  /\ vals[1].child = 2
  /\ vals[2].content = 0

(* C3: begin on an immutable value returns a new object carrying a newly   *)
(* allocated primary context (new token cell, active, scope 0); the        *)
(* argument keeps its context reference, token value, scope and fields,    *)
(* and is still immutable.                                                 *)
C3_BeginClonesImmutable ==
  (last.op = "begin" /\ isImmutable(pre, last.arg))
    => LET c == getMutationContext(Heap, last.ret) IN
       /\ last.ret # last.arg
       /\ last.ret \notin Values(pre)
       /\ c \notin Contexts(pre)
       /\ mctx[c].token \notin Tokens(pre)
       /\ token[mctx[c].token]
       /\ mctx[c].scope = 0
       /\ vals[last.ret] = [pre.vals[last.arg] EXCEPT !.mctx = c]
       /\ vals[last.arg] = pre.vals[last.arg]
       /\ mctx[ArgCtx] = pre.mctx[ArgCtx]
       /\ token[ArgToken] = pre.token[ArgToken]
       /\ isImmutable(Heap, last.arg)

C3_Witness ==
  /\ last.op = "begin"
  /\ isImmutable(pre, last.arg)
  /\ ArgCtx # Frozen
  /\ isMutable(Heap, last.ret)

(* C4: begin on a value that is already mutable returns that same object   *)
(* and clones nothing: a primary context gets its scope incremented by     *)
(* one, a subordinate one is left as it is; so the value begin returns is  *)
(* mutable and a second begin returns it again.                            *)
C4_BeginIdempotent ==
  /\ (last.op = "begin" /\ isMutable(pre, last.arg))
       => /\ last.ret = last.arg
          /\ vals = pre.vals
          /\ token = pre.token
          /\ isPrimaryContext(pre, ArgCtx)
               => mctx = [pre.mctx EXCEPT ![ArgCtx].scope = @ + 1]
          /\ isSubordinateContext(pre, ArgCtx) => mctx = pre.mctx
  /\ last.op = "begin"
       => /\ isMutable(Heap, last.ret)
          /\ begin(Heap, last.ret).ret = last.ret

C4_Witness ==
  /\ last.op = "begin"
  /\ isMutable(pre, last.arg)
  /\ isPrimaryContext(pre, ArgCtx)
  /\ mctx[ArgCtx].scope = MaxScope
  /\ \E w \in Values(Heap) : isSubordinateContext(Heap, getMutationContext(Heap, w))
                              /\ isMutable(Heap, w)

(* C5 as stated: begin(commit(begin(v))) has the content of v and is       *)
(* immutable.                                                              *)
C5_Original ==
  last.op = "roundTrip"
    => /\ vals[last.ret].content = pre.vals[last.arg].content
       /\ isImmutable(Heap, last.ret)

(* C5 amended: begin(commit(begin(v))) has the content and child of v and  *)
(* is mutable; when v is immutable it is commit(begin(v)) that is frozen   *)
(* with the content of v, and the outer begin returns a further clone of   *)
(* it.                                                                     *)
C5_RoundTripMutable ==
  last.op = "roundTrip"
    => /\ vals[last.ret].content = pre.vals[last.arg].content
       /\ vals[last.ret].child = pre.vals[last.arg].child
       /\ isMutable(Heap, last.ret)
       /\ isImmutable(pre, last.arg)
            => LET mid == Len(pre.vals) + 1 IN
               /\ mid \in Values(Heap)
               /\ isImmutable(Heap, mid)
               /\ vals[mid].content = pre.vals[last.arg].content
               /\ last.ret \notin {last.arg, mid}
               /\ vals[last.arg] = pre.vals[last.arg]

C5_Witness ==
  /\ last.op = "roundTrip"
  /\ isImmutable(pre, last.arg)
  /\ isMutable(Heap, last.ret)
  /\ isImmutable(Heap, Len(pre.vals) + 1)
  /\ vals[last.ret].child = 2

(* C6: for a primary context, opens counts its creation and every further  *)
(* begin, less every commit, on the values holding it: the token is active *)
(* with scope = opens - 1 as long as a begin is unmatched and frozen once  *)
(* all are matched, the context staying primary; a context created         *)
(* subordinate keeps scope -1; and a begin followed by its commit leaves   *)
(* the heap (token and scope) as it was.                                   *)
C6_NestingMatched ==
  /\ \A c \in Contexts(Heap) :
       /\ opens[c] >= 1 => isMutableContext(Heap, c) /\ mctx[c].scope = opens[c] - 1
       /\ opens[c] = 0 => ~isMutableContext(Heap, c) /\ mctx[c].scope >= 0
       /\ opens[c] = -1 => mctx[c].scope = -1
  /\ \A v \in Values(Heap) :
       isMutable(Heap, v) => LET b == begin(Heap, v) IN commit(b.h, b.ret).h = Heap

C6_Witness ==
  /\ last.op = "commit"
  /\ pre.mctx[ArgCtx].scope = MaxScope
  /\ mctx[ArgCtx].scope = MaxScope - 1
  /\ opens[ArgCtx] = MaxScope
  /\ isMutable(Heap, last.arg)

(* C7: commit on a value whose context is subordinate changes no token, no *)
(* context and no value, and returns the value it was given.               *)
C7_SubordinateCommitNoOp ==
  (last.op = "commit" /\ isSubordinateContext(pre, ArgCtx))
    => /\ Heap = pre
       /\ last.ret = last.arg

C7_Witness ==
  /\ last.op = "commit"
  /\ isSubordinateContext(pre, ArgCtx)
  /\ isMutable(Heap, last.arg)
  /\ \E w \in Batch(Heap, ArgToken) :
       isPrimaryContext(Heap, getMutationContext(Heap, w)) /\ isMutable(Heap, w)

(* the operations that commit nothing *)
NonCommitting ==
  {"begin", "clone", "selectContext", "asSubordinateContext", "getSubordinateContext",
   "modifyAsSubordinate", "modifyAsEqual", "modifyProperty", "ensureContext",
   "withMutability", "mutable", "immutable"}

(* C8: a token that was active becomes frozen only in a step that is       *)
(* commit (also the commit update ends with) or commitContext applied to   *)
(* the primary context of that token; begin, clone, selectContext,         *)
(* asSubordinateContext, modifyAsSubordinate, modifyAsEqual,               *)
(* modifyProperty, ensureContext and withMutability change the boolean of  *)
(* no existing token.                                                      *)
C8_OnlyOwnerCommitFreezes ==
  /\ \A t \in Tokens(pre) :
       (pre.token[t] /\ ~token[t])
         => \/ /\ last.op \in {"commit", "update"}
               /\ isPrimaryContext(pre, ArgCtx)
               /\ ArgToken = t
            \/ /\ last.op = "commitContext"
               /\ isPrimaryContext(pre, last.arg)
               /\ pre.mctx[last.arg].token = t
  /\ last.op \in NonCommitting => \A t \in Tokens(pre) : token[t] = pre.token[t]

C8_Witness ==
  /\ last.op = "commitContext"
  /\ isPrimaryContext(pre, last.arg)
  /\ isMutableContext(pre, last.arg)
  /\ ~isMutableContext(Heap, last.arg)
  /\ \E c \in Contexts(Heap) : /\ c # last.arg
                               /\ isRelatedContext(Heap, c, last.arg)
                               /\ isSubordinateContext(Heap, c)

(* C9: a token cell that holds frozen is never set back to active and the  *)
(* context reference of an existing value is never reassigned, so a value  *)
(* that is immutable stays immutable; begin on it hands out a new object   *)
(* with a new context.                                                     *)
C9_FrozenForever ==
  /\ \A t \in Tokens(pre) : ~pre.token[t] => ~token[t]
  /\ \A v \in Values(pre) :
       /\ vals[v].mctx = pre.vals[v].mctx
       /\ isImmutable(pre, v) => isImmutable(Heap, v)
  /\ (last.op = "begin" /\ isImmutable(pre, last.arg))
       => /\ last.ret \notin Values(pre)
          /\ getMutationContext(Heap, last.ret) \notin Contexts(pre)

C9_Witness ==
  /\ last.op \in {"begin", "commit"}
  /\ ArgCtx # Frozen
  /\ isPrimaryContext(pre, ArgCtx)
  /\ isImmutable(pre, last.arg)
  /\ isImmutable(Heap, last.arg)

(* C10: update(mutate, v) on an immutable v hands mutate a mutable clone   *)
(* that is another object than v, returns that clone, and the value it     *)
(* returns is immutable; v is unchanged.                                   *)
C10_UpdateFreezes ==
  (last.op = "update" /\ isImmutable(pre, last.arg))
    => LET b == begin(pre, last.arg) IN
       /\ b.ret # last.arg
       /\ isMutable(b.h, b.ret)
       /\ last.ret = b.ret
       /\ isImmutable(Heap, last.ret)
       /\ vals[last.arg] = pre.vals[last.arg]
       /\ isImmutable(Heap, last.arg)

(* C11: modifyProperty on an immutable parent throws the invalid-operation *)
(* error and returns nothing; the slot of the parent is not written, no    *)
(* object is cloned, no context is allocated and no token or scope         *)
(* changes: the heap is the one before the call.                           *)
C11_ModifyPropertyRefusesImmutable ==
  (last.op = "modifyProperty" /\ isImmutable(pre, last.arg))
    => /\ last.err = "InvalidOperation"
       /\ last.ret = NoRef
       /\ Heap = pre

C11_Witness ==
  /\ last.op = "modifyProperty"
  /\ isImmutable(pre, last.arg)
  /\ ArgCtx # Frozen
  /\ pre.vals[last.arg].child # NoRef
  /\ ~isRelatedContext(pre, getMutationContext(pre, pre.vals[last.arg].child), ArgCtx)
  /\ last.err = "InvalidOperation"

(* C12: modifyProperty on a mutable parent returns a mutable child whose   *)
(* context has the token of the parent's, and the slot of the parent holds *)
(* the child returned; a slot value that was already related is returned   *)
(* as it is and nothing is written; otherwise the slot holds a new clone   *)
(* of the previous child carrying a subordinate context of the parent's    *)
(* batch, and the previous child object is unchanged.                      *)
C12_ModifyPropertyMutableParent ==
  (last.op = "modifyProperty" /\ isMutable(pre, last.arg))
    => LET old == pre.vals[last.arg].child IN
       /\ last.err = "none"
       /\ isMutable(Heap, last.ret)
       /\ isRelatedContext(Heap, getMutationContext(Heap, last.ret),
                           getMutationContext(Heap, last.arg))
       /\ vals[last.arg].child = last.ret
       /\ isRelatedContext(pre, getMutationContext(pre, old), ArgCtx)
            => last.ret = old /\ Heap = pre
       /\ ~isRelatedContext(pre, getMutationContext(pre, old), ArgCtx)
            => /\ last.ret \notin Values(pre)
               /\ isSubordinateContext(Heap, getMutationContext(Heap, last.ret))
               /\ vals[last.ret] = [pre.vals[old] EXCEPT !.mctx = vals[last.ret].mctx]
               /\ vals[old] = pre.vals[old]
               /\ vals[last.arg] = [pre.vals[last.arg] EXCEPT !.child = last.ret]
               /\ token = pre.token
               /\ \A c \in Contexts(pre) : mctx[c] = pre.mctx[c]

C12_Witness ==
  /\ last.op = "modifyProperty"
  /\ isMutable(pre, last.arg)
  /\ isPrimaryContext(pre, ArgCtx)
  /\ isImmutable(pre, pre.vals[last.arg].child)
  /\ last.ret \notin Values(pre)
  /\ vals[last.arg].child = last.ret
  /\ getMutationContext(Heap, last.ret) \notin Contexts(pre)
  /\ isMutable(Heap, last.ret)

(* the context modifyAsSubordinate / modifyAsEqual were given, itself or   *)
(* as the context of the owner                                             *)
OwnerCtx == contextOf(pre, Pref(last.how, last.x))

C14_ModifyAsSubordinateResult ==
  (last.op = "modifyAsSubordinate" /\ isMutableContext(pre, OwnerCtx))
    => LET c == getMutationContext(Heap, last.ret) IN
       /\ last.err = "none"
       /\ (last.ret = last.arg)
            <=> (isSubordinateContext(pre, ArgCtx) /\ isRelatedContext(pre, ArgCtx, OwnerCtx))
       /\ last.ret = last.arg => Heap = pre
       /\ last.ret # last.arg
            => /\ last.ret \notin Values(pre)
               /\ vals[last.ret] = [pre.vals[last.arg] EXCEPT !.mctx = c]
               /\ vals[last.arg] = pre.vals[last.arg]
       /\ isSubordinateContext(Heap, c)
       /\ isRelatedContext(Heap, c, OwnerCtx)
       /\ isMutableContext(Heap, c)

C14_Witness ==
  /\ last.op = "modifyAsSubordinate"
  /\ isMutableContext(pre, OwnerCtx)
  /\ isRelatedContext(pre, ArgCtx, OwnerCtx)
  /\ isPrimaryContext(pre, ArgCtx)
  /\ last.ret \notin Values(pre)
  /\ isSubordinateContext(Heap, getMutationContext(Heap, last.ret))

C16_SelectContextNormalizes ==
  last.op = "selectContext"
    => LET k == last.how
           x == last.x
           r == last.ret
       IN /\ last.err = "none"
          /\ k \in {"undef", "false"} => r = Frozen /\ Heap = pre
          /\ (k = "ctx" /\ isImmutableContext(pre, x)) => r = Frozen /\ Heap = pre
          /\ (k = "ctx" /\ isMutableContext(pre, x)) => r = x /\ Heap = pre
          /\ k = "true"
               => /\ r \notin Contexts(pre)
                  /\ mctx[r].token \notin Tokens(pre)
                  /\ token[mctx[r].token]
                  /\ mctx[r].scope = 0
                  /\ \A c \in Contexts(pre) : mctx[c] = pre.mctx[c]
                  /\ \A t \in Tokens(pre) : token[t] = pre.token[t]
                  /\ vals = pre.vals
          /\ k = "val"
               => /\ isSubordinateContext(Heap, r)
                  /\ mctx[r].token = pre.mctx[getMutationContext(pre, x)].token
                  /\ token = pre.token
                  /\ vals = pre.vals
          /\ isMutableContext(Heap, r)
               <=> \/ k = "true"
                   \/ k = "ctx" /\ isMutableContext(pre, x)
                   \/ k = "val" /\ isMutable(pre, x)

C16_Witness ==
  /\ last.op = "selectContext"
  /\ last.how = "ctx"
  /\ last.x # Frozen
  /\ isPrimaryContext(pre, last.x)
  /\ isImmutableContext(pre, last.x)
  /\ last.ret = Frozen

(* the context asSubordinateContext was given, or the context of the value *)
(* getSubordinateContext was given                                         *)
InputCtx == IF last.op = "asSubordinateContext" THEN last.x ELSE ArgCtx

(* C17: asSubordinateContext / getSubordinateContext return the context    *)
(* they were given, allocating nothing, when it is subordinate; otherwise  *)
(* they allocate exactly one context, with scope -1 and the token cell of  *)
(* the input. The result is subordinate and related to the input, the      *)
(* input context is not modified, and the operation applied to its own     *)
(* result returns it again without allocating.                             *)
C17_SubordinateContext ==
  last.op \in {"asSubordinateContext", "getSubordinateContext"}
    => /\ last.err = "none"
       /\ isSubordinateContext(pre, InputCtx) => last.ret = InputCtx /\ Heap = pre
       /\ ~isSubordinateContext(pre, InputCtx)
            => /\ last.ret = Len(pre.mctx) + 1
               /\ mctx = Append(pre.mctx, MutationContext(pre.mctx[InputCtx].token, -1))
               /\ token = pre.token
               /\ vals = pre.vals
       /\ isSubordinateContext(Heap, last.ret)
       /\ isRelatedContext(Heap, last.ret, InputCtx)
       /\ mctx[InputCtx] = pre.mctx[InputCtx]
       /\ asSubordinateContext(Heap, last.ret) = Ret(Heap, last.ret)

C17_Witness ==
  /\ last.op = "getSubordinateContext"
  /\ isPrimaryContext(pre, InputCtx)
  /\ isMutableContext(pre, InputCtx)
  /\ last.ret \notin Contexts(pre)
  /\ mctx[last.ret] = MutationContext(pre.mctx[InputCtx].token, -1)

(* C18: immutable() returns the one Frozen context and allocates nothing,  *)
(* in every state; and whatever operations have run (begin, commit,        *)
(* commitContext, modify* on values holding it included), the token of     *)
(* Frozen is false and its scope is -1.                                    *)
C18_FrozenCanonical ==
  /\ mctx[Frozen] = MutationContext(1, -1)
  /\ ~token[mctx[Frozen].token]
  /\ immutable(Heap) = Ret(Heap, Frozen)
  /\ last.op = "immutable" => last.ret = Frozen /\ Heap = pre /\ last.err = "none"

C18_Witness ==
  /\ last.op = "immutable"
  /\ last.ret = Frozen
  /\ Len(mctx) > 1
  /\ \E c \in Contexts(Heap) : ~isRelatedContext(Heap, c, Frozen) /\ isImmutableContext(Heap, c)
  /\ \E v \in Values(Heap) : v > 2 /\ getMutationContext(Heap, v) = Frozen

(* C19: isRelatedContext is reflexive, symmetric and transitive on the     *)
(* contexts of the heap; it holds exactly when the two contexts refer to   *)
(* the same token cell, whatever the cell holds, so no operation (commit   *)
(* included) changes it between existing contexts; and areContextsRelated  *)
(* and hasRelatedContext answer as isRelatedContext does on the contexts   *)
(* of the values.                                                          *)
C19_RelatedEquivalence ==
  /\ \A a \in Contexts(Heap), b \in Contexts(Heap), c \in Contexts(Heap) :
       /\ isRelatedContext(Heap, a, a)
       /\ isRelatedContext(Heap, a, b) => isRelatedContext(Heap, b, a)
       /\ (isRelatedContext(Heap, a, b) /\ isRelatedContext(Heap, b, c))
            => isRelatedContext(Heap, a, c)
       /\ isRelatedContext(Heap, a, b) <=> (mctx[a].token = mctx[b].token)
  /\ \A a \in Contexts(pre), b \in Contexts(pre) :
       isRelatedContext(Heap, a, b) <=> isRelatedContext(pre, a, b)
  /\ \A v \in Values(Heap), w \in Values(Heap) :
       areContextsRelated(Heap, v, w)
         <=> isRelatedContext(Heap, getMutationContext(Heap, v), getMutationContext(Heap, w))
  /\ \A c \in Contexts(Heap), v \in Values(Heap) :
       hasRelatedContext(Heap, c, v)
         <=> isRelatedContext(Heap, c, getMutationContext(Heap, v))

C19_Witness ==
  /\ last.op = "commit"
  /\ isMutable(pre, last.arg)
  /\ isImmutable(Heap, last.arg)
  /\ \E c \in Contexts(Heap) : c # ArgCtx /\ isRelatedContext(Heap, c, ArgCtx)
  /\ ~isRelatedContext(Heap, Frozen, ArgCtx)
  /\ isMutableContext(Heap, Frozen) = isMutableContext(Heap, ArgCtx)

(* the operations with a documented failure *)
Failing == {"modifyAsSubordinate", "modifyAsEqual", "modifyProperty"}

AllCommitted(h) == (\A t \in Tokens(h) : ~h.token[t]) /\ ~h.tree.editable

C22_ModifyAsEqualSameRole ==
  (last.op = "modifyAsEqual" /\ isMutableContext(pre, OwnerCtx))
    => (isPrimaryContext(Heap, getMutationContext(Heap, last.ret))
          <=> isPrimaryContext(pre, OwnerCtx))

(* C23 as stated: every immutable value holds the canonical Frozen         *)
(* context, the values that became immutable through commit included.      *)
C23_Original ==
  \A v \in Values(Heap) : isImmutable(Heap, v) => getMutationContext(Heap, v) = Frozen

(* C23 amended: the values built with immutable(), and the clones made     *)
(* with a preference that selectContext turns into Frozen (undefined,      *)
(* false, a frozen context), hold the one Frozen context, and no other     *)
(* context refers to its token cell; no operation reassigns the context of *)
(* an existing value, so a value that became immutable through commit      *)
(* keeps its own context, another object than Frozen, on a cell that now   *)
(* holds false.                                                            *)
C23_FrozenOrCommitted ==
  /\ vals[1].mctx = Frozen
  /\ vals[2].mctx = Frozen
  /\ \A c \in Contexts(Heap) : isRelatedContext(Heap, c, Frozen) => c = Frozen
  /\ \A v \in Values(pre) : vals[v].mctx = pre.vals[v].mctx
  /\ (last.op = "commit" /\ isMutable(pre, last.arg) /\ isImmutable(Heap, last.arg))
       => /\ getMutationContext(Heap, last.arg) # Frozen
          /\ ~isRelatedContext(Heap, getMutationContext(Heap, last.arg), Frozen)
  /\ (last.op = "clone"
        /\ (last.how \in {"undef", "false"}
              \/ (last.how = "ctx" /\ isImmutableContext(pre, last.x))))
       => getMutationContext(Heap, last.ret) = Frozen

C23_Witness ==
  /\ last.op = "commit"
  /\ isMutable(pre, last.arg)
  /\ isImmutable(Heap, last.arg)
  /\ getMutationContext(Heap, last.arg) # Frozen
  /\ \A t \in Tokens(Heap) : ~token[t]

(* the mutate procedures whose begin and commit calls are matched *)
Balanced == {"skip", "write", "nested"}

(* C24: update on a value that is already mutable hands that very value to *)
(* mutate and returns it, cloning nothing; when mutate makes no unmatched  *)
(* begin or commit, the value is still mutable afterwards and every scope  *)
(* and token is what it was before the call, for a primary and for a       *)
(* subordinate context alike.                                              *)
C24_UpdateMutableInPlace ==
  (last.op = "update" /\ isMutable(pre, last.arg))
    => /\ begin(pre, last.arg).ret = last.arg
       /\ last.ret = last.arg
       /\ Len(vals) = Len(pre.vals)
       /\ Len(mctx) = Len(pre.mctx)
       /\ last.how \in Balanced
            => /\ isMutable(Heap, last.arg)
               /\ mctx = pre.mctx
               /\ token = pre.token

C24_Witness ==
  /\ last.op = "update"
  /\ last.how = "nested"
  /\ isMutable(pre, last.arg)
  /\ isPrimaryContext(pre, ArgCtx)
  /\ pre.mctx[ArgCtx].scope >= 1
  /\ vals[last.arg].content # pre.vals[last.arg].content
  /\ isMutable(Heap, last.arg)

(* C25: commitContext on a primary context sets the token of its batch to  *)
(* frozen, at any nesting depth, so that every value whose context is      *)
(* related is immutable, and it changes no scope, no value and no other    *)
(* token; on a subordinate context it changes nothing.                     *)
C25_CommitContextFreezes ==
  last.op = "commitContext"
    => LET t == pre.mctx[last.arg].token IN
       /\ isPrimaryContext(pre, last.arg)
            => /\ ~token[t]
               /\ \A w \in Batch(Heap, t) : isImmutable(Heap, w)
               /\ \A c \in Contexts(Heap) :
                    isRelatedContext(Heap, c, last.arg) => isImmutableContext(Heap, c)
               /\ mctx = pre.mctx
               /\ vals = pre.vals
               /\ \A u \in Tokens(pre) \ {t} : token[u] = pre.token[u]
       /\ isSubordinateContext(pre, last.arg) => Heap = pre

C25_Witness ==
  /\ last.op = "commitContext"
  /\ isPrimaryContext(pre, last.arg)
  /\ pre.mctx[last.arg].scope >= 1
  /\ mctx[last.arg].scope = pre.mctx[last.arg].scope
  /\ \E w \in Values(pre) : /\ isRelatedContext(pre, getMutationContext(pre, w), last.arg)
                            /\ isSubordinateContext(pre, getMutationContext(pre, w))
                            /\ isMutable(pre, w)
                            /\ isImmutable(Heap, w)

(* C26: ensureContext returns the value itself exactly when the context of *)
(* the value is the very context object given; otherwise it returns a new  *)
(* clone holding exactly that context, also when the two contexts are      *)
(* related (same token, other object) and whether or not the context is    *)
(* mutable; nothing else is written.                                       *)
C26_EnsureContextExact ==
  last.op = "ensureContext"
    => /\ last.err = "none"
       /\ (last.ret = last.arg) <=> (ArgCtx = last.x)
       /\ last.ret = last.arg => Heap = pre
       /\ last.ret # last.arg
            => /\ last.ret \notin Values(pre)
               /\ vals = Append(pre.vals, [pre.vals[last.arg] EXCEPT !.mctx = last.x])
               /\ mctx = pre.mctx
               /\ token = pre.token
       /\ getMutationContext(Heap, last.ret) = last.x

C26_Witness ==
  /\ last.op = "ensureContext"
  /\ ArgCtx # last.x
  /\ isRelatedContext(pre, ArgCtx, last.x)
  /\ isImmutableContext(pre, last.x)
  /\ last.ret \notin Values(pre)
  /\ getMutationContext(Heap, last.ret) = last.x

(* what the first argument of withMutability asks for *)
WantsMutable ==
  \/ last.how = "true"
  \/ last.how = "ctx" /\ isMutableContext(pre, last.x)
  \/ last.how = "val" /\ isMutable(pre, last.x)

(* C27: withMutability returns a version of the value (the value or a new  *)
(* clone of it) that is mutable for true, a mutable context or a mutable   *)
(* value and immutable for undefined, false, an immutable context or an    *)
(* immutable value; it returns the value itself when given the boolean     *)
(* isMutable(value) and when the context, or the context of the value,     *)
(* given is related to the value's; and the clone it makes for a mutable   *)
(* value holds a subordinate context of that value's batch.                *)
C27_WithMutabilityMatches ==
  last.op = "withMutability"
    => /\ last.err = "none"
       /\ isMutable(Heap, last.ret) <=> WantsMutable
       /\ \/ last.ret = last.arg /\ Heap = pre
          \/ /\ last.ret \notin Values(pre)
             /\ vals[last.ret] = [pre.vals[last.arg] EXCEPT !.mctx = vals[last.ret].mctx]
             /\ vals[last.arg] = pre.vals[last.arg]
       /\ (last.how \in {"true", "false"} /\ (last.how = "true") = isMutable(pre, last.arg))
            => last.ret = last.arg
       /\ (last.how = "ctx" /\ isRelatedContext(pre, last.x, ArgCtx)) => last.ret = last.arg
       /\ (last.how = "val" /\ areContextsRelated(pre, last.x, last.arg))
            => last.ret = last.arg
       /\ (last.how = "val" /\ isMutable(pre, last.x) /\ last.ret # last.arg)
            => /\ isSubordinateContext(Heap, getMutationContext(Heap, last.ret))
               /\ hasRelatedContext(Heap, getMutationContext(Heap, last.ret), last.x)

C27_Witness ==
  /\ last.op = "withMutability"
  /\ last.how = "val"
  /\ isMutable(pre, last.x)
  /\ isPrimaryContext(pre, getMutationContext(pre, last.x))
  /\ isImmutable(pre, last.arg)
  /\ last.ret \notin Values(pre)
  /\ isMutable(Heap, last.ret)
  /\ getMutationContext(Heap, last.ret) \notin Contexts(pre)

(* C28: every scope is -1 or at least 0, and no operation changes the role *)
(* of a context: a subordinate context keeps scope -1 and a primary one    *)
(* never drops below 0, commit at scope 0 freezing the token without       *)
(* decrementing, also when the token is frozen already.                    *)
C28_RoleStable ==
  /\ \A c \in Contexts(Heap) : mctx[c].scope >= -1
  /\ \A c \in Contexts(pre) :
       /\ isPrimaryContext(pre, c) <=> isPrimaryContext(Heap, c)
       /\ isSubordinateContext(pre, c) => mctx[c].scope = -1
  /\ (last.op = "commit" /\ pre.mctx[ArgCtx].scope = 0)
       => mctx[ArgCtx].scope = 0 /\ ~token[ArgToken]

C28_Witness ==
  /\ last.op = "commit"
  /\ isPrimaryContext(pre, ArgCtx)
  /\ pre.mctx[ArgCtx].scope = 0
  /\ isImmutable(pre, last.arg)
  /\ mctx[ArgCtx].scope = 0
  /\ \E c \in Contexts(Heap) : c # Frozen /\ isSubordinateContext(Heap, c)

(* C29: a token cell is referred to by at most one primary context: the    *)
(* contexts an operation allocates are either primary on a cell allocated  *)
(* with them (mutable) or subordinate, scope -1, on an existing cell       *)
(* (asSubordinateContext).                                                 *)
C29_OnePrimaryPerToken ==
  /\ \A a \in Contexts(Heap), b \in Contexts(Heap) :
       (isPrimaryContext(Heap, a) /\ isPrimaryContext(Heap, b)
          /\ isRelatedContext(Heap, a, b)) => a = b
  /\ \A c \in Contexts(Heap) \ Contexts(pre) :
       \/ isPrimaryContext(Heap, c) /\ mctx[c].token \notin Tokens(pre)
       \/ mctx[c].scope = -1 /\ mctx[c].token \in Tokens(pre)

C29_Witness ==
  /\ last.op = "asSubordinateContext"
  /\ isPrimaryContext(pre, last.x)
  /\ isMutableContext(pre, last.x)
  /\ last.ret \notin Contexts(pre)
  /\ isRelatedContext(Heap, last.ret, last.x)
  /\ \E v \in Values(Heap) : getMutationContext(Heap, v) = last.x

(* the context the last operation allocated for a new batch *)
NewCtx == IF last.op = "mutable" THEN last.ret ELSE getMutationContext(Heap, last.ret)

(* C30: the context that begin on an immutable value, or mutable(), opens  *)
(* is related to no context that existed before; and begin / commit on a   *)
(* value change no token, no scope and no value outside the batch of that  *)
(* value, so the contexts and values of another batch keep their           *)
(* mutability.                                                             *)
C30_BatchesIsolated ==
  /\ (last.op = "mutable" \/ (last.op = "begin" /\ isImmutable(pre, last.arg)))
       => /\ NewCtx \notin Contexts(pre)
          /\ isMutableContext(Heap, NewCtx)
          /\ \A d \in Contexts(pre) : ~isRelatedContext(Heap, NewCtx, d)
          /\ \A d \in Contexts(pre) :
               mctx[d] = pre.mctx[d] /\ isMutableContext(Heap, d) = isMutableContext(pre, d)
  /\ last.op \in {"begin", "commit"}
       => /\ \A t \in Tokens(pre) \ {ArgToken} : token[t] = pre.token[t]
          /\ \A d \in Contexts(pre) :
               ~isRelatedContext(pre, d, ArgCtx)
                 => mctx[d] = pre.mctx[d] /\ isMutableContext(Heap, d) = isMutableContext(pre, d)
          /\ \A w \in Values(pre) :
               ~areContextsRelated(pre, w, last.arg)
                 => vals[w] = pre.vals[w] /\ isMutable(Heap, w) = isMutable(pre, w)

C30_Witness ==
  /\ last.op = "commit"
  /\ isMutable(pre, last.arg)
  /\ isImmutable(Heap, last.arg)
  /\ \E w \in Values(pre) :
       /\ ~areContextsRelated(pre, w, last.arg)
       /\ isPrimaryContext(pre, getMutationContext(pre, w))
       /\ isMutable(pre, w)
       /\ isMutable(Heap, w)

(* C31: modifyAsEqual with a mutable primary owner clones exactly when the *)
(* child is unrelated or related but subordinate, and the clone holds the  *)
(* very context object of the owner, no context being allocated. Clone and *)
(* owner so share one scope counter: begin on the clone increments the     *)
(* scope of the owner, and commit on the clone at scope 0 freezes the      *)
(* owner and the whole batch; whenever commit at scope 0 is called on a    *)
(* value that shares its primary context, the other holders are frozen     *)
(* with it.                                                                *)
C31_EqualSharesOwnerContext ==
  /\ (last.op = "modifyAsEqual" /\ isMutableContext(pre, OwnerCtx)
        /\ isPrimaryContext(pre, OwnerCtx))
       => /\ (last.ret # last.arg)
               <=> (~isRelatedContext(pre, ArgCtx, OwnerCtx)
                      \/ isSubordinateContext(pre, ArgCtx))
          /\ last.ret # last.arg
               => LET b == begin(Heap, last.ret)
                      c == commit(Heap, last.ret)
                  IN /\ last.ret \notin Values(pre)
                     /\ getMutationContext(Heap, last.ret) = OwnerCtx
                     /\ mctx = pre.mctx
                     /\ token = pre.token
                     /\ b.ret = last.ret
                     /\ b.h.mctx[OwnerCtx].scope = pre.mctx[OwnerCtx].scope + 1
                     /\ pre.mctx[OwnerCtx].scope = 0
                          => \A w \in Values(Heap) :
                               hasRelatedContext(Heap, OwnerCtx, w) => isImmutable(c.h, w)
  /\ (last.op = "commit" /\ isPrimaryContext(pre, ArgCtx) /\ pre.mctx[ArgCtx].scope = 0)
       => \A w \in Values(Heap) :
            getMutationContext(Heap, w) = ArgCtx => isImmutable(Heap, w)
  /\ (last.op = "begin" /\ isMutable(pre, last.arg) /\ isPrimaryContext(pre, ArgCtx))
       => \A w \in Values(Heap) :
            getMutationContext(Heap, w) = ArgCtx
              => mctx[getMutationContext(Heap, w)].scope = pre.mctx[ArgCtx].scope + 1

C31_Witness ==
  /\ last.op = "commit"
  /\ isPrimaryContext(pre, ArgCtx)
  /\ pre.mctx[ArgCtx].scope = 0
  /\ isMutable(pre, last.arg)
  /\ \E w \in Values(pre) :
       /\ w < last.arg
       /\ getMutationContext(pre, w) = ArgCtx
       /\ isMutable(pre, w)
       /\ isImmutable(Heap, w)

====
